---- MODULE Spec2Model ----
(***************************************************************************)
(* Model of raiden_installer/raiden.py: the RaidenClient descriptor, its   *)
(* installer (install), its process controller (launch, kill,              *)
(* get_process_id, is_running, is_zombie) and the readiness wait           *)
(* (wait_for_web_ui_ready, check_status_api).                              *)
(*                                                                         *)
(* The operating system is modelled by a process table (procs), the file   *)
(* at install_path (file, folder) and the answers of the network, which    *)
(* are inputs of the steps that read them.                                 *)
(***************************************************************************)
EXTENDS Integers, Sequences, FiniteSets, TLC

\* ---------------------------------------------------------------- bounds
MaxPid == 2            \* process ids are 1..MaxPid
MaxEvents == 5         \* network answers observed by one wait_for_web_ui_ready call

Pids == 1..MaxPid

\* ------------------------------------------------------------- constants
None == "None"

\* the value of a process id that is None (get_process_id found no process)
NoPid == 0

\* binary_name of the modelled descriptor: BINARY_NAME_FORMAT with its release
binary_name == "raiden-1.2.0"

\* names an OS process can have: the binary, the binary in another case,
\* and an unrelated program
ProcessNames == {"raiden-1.2.0", "RAIDEN-1.2.0", "bash"}

\* str.lower() on the names of the model
lower(s) == IF s = "RAIDEN-1.2.0" THEN "raiden-1.2.0" ELSE s

STATUS_RUNNING == "running"
STATUS_ZOMBIE == "zombie"
STATUS_DEAD == "dead"
Statuses == {STATUS_RUNNING, STATUS_ZOMBIE, STATUS_DEAD}

\* a slot of the process table with no process in it
NoProc == [name |-> "", status |-> "absent"]
ProcEntries == [name : ProcessNames, status : Statuses] \cup {NoProc}

\* permission bits of a file
Mode770 == {"ur", "uw", "ux", "gr", "gw", "gx"}
\* bits of a file created by open("wb") under the usual umask 022
ModeCreated == {"ur", "uw", "gr", "or"}

EmptyBytes == "empty"
Payloads == {"raiden-a", "raiden-b"}
NoFile == [bytes |-> None, mode |-> {}]

\* what requests.get(download_url) can bring: a failed response, or a
\* success response whose content is an archive
\*   corrupt : not an archive of the expected kind
\*   nomember: an archive with no members
\*   nonfile : first member is not a regular file (a directory)
\*   file    : first member is a regular file with the given bytes
Archives == {[kind |-> "corrupt", payload |-> EmptyBytes],
             [kind |-> "nomember", payload |-> EmptyBytes],
             [kind |-> "nonfile", payload |-> EmptyBytes]}
            \cup [kind : {"file"}, payload : Payloads]
Downloads == [ok : {FALSE}, content : {[kind |-> "corrupt", payload |-> EmptyBytes]}]
             \cup [ok : {TRUE}, content : Archives]

\* answers of GET /api/v1/status: connection refused, a non-200 response,
\* or a 200 response with a JSON body
REFUSED == "ConnectionError"
StatusBodies == {"starting", "ready"}
StatusAnswers == {[code |-> "none", body |-> REFUSED]}
                 \cup [code : {"200"}, body : StatusBodies]

\* outcomes of sock.connect_ex: 0, an errno, or socket.gaierror raised
ConnectAnswers == {"connected", "ECONNREFUSED", "gaierror"}

\* results of an operation
Returned == "returned"
Pending == "pending"
NotRunning == "RuntimeError: Raiden is not running"
AlreadyInstalled == "RuntimeError: already exists"
ProcessTerminated == "RaidenClientError"
NoSuchProcess == "psutil.NoSuchProcess"
AssertionError == "AssertionError"
DownloadError == "requests.HTTPError"
ExtractionError == "extraction error"
LaunchError == "OSError"

VARIABLES
    platform,       \* sys.platform: "linux" or "darwin"
    procs,          \* the OS process table: pid -> ProcEntries
    process_id,     \* self._process_id
    spawned,        \* the pid of the child of the latest launch(), until
                    \* the next kill() and while it is in the process table
    folder,         \* BINARY_FOLDER_PATH exists
    file,           \* the file at install_path: NoFile or [bytes, mode]
    pc,             \* position of the running wait_for_web_ui_ready call
    status_callback,\* whether that call was given a status_callback
    events,         \* network answers that call has observed, in order
    callbacks,      \* bodies handed to status_callback by that call, in order
                    \* (both are forgotten when another method is called)
    polled_dead,    \* that call's latest request was made with the process
                    \* unresolvable, and it has been unresolvable ever since
    last,           \* the latest operation: its name, outcome and effects
    left,           \* the descriptor on the left of a comparison (self)
    right,          \* the descriptor on the right of a comparison (other)
    index,          \* per class: the entries its release index answers with
    cache,          \* functools.lru_cache of get_available_releases, per class
    call            \* the latest listing or tag resolution: class, tag, value

vars == <<platform, procs, process_id, spawned, folder, file, pc, status_callback,
          events, callbacks, polled_dead, last, left, right, index, cache,
          call>>

\* what the methods of a controller never touch
releasevars == <<left, right, index, cache, call>>
\* what comparing and listing releases never touches
clientvars == <<platform, procs, process_id, spawned, folder, file, pc, status_callback,
                events, callbacks, polled_dead>>

\* the record kept about an operation
Op(name, raised, scanned, killed, downloaded, force) ==
    [op |-> name, raised |-> raised, scanned |-> scanned, killed |-> killed,
     downloaded |-> downloaded, force |-> force]

\* ------------------------------------------------------ process discovery

\* get_process_id.is_running_raiden: psutil raises ZombieProcess for a
\* zombie on darwin; `status() is [DEAD, ZOMBIE]` compares a string with a
\* fresh list by identity, so is_dead is False for every status
is_dead(p) == FALSE

\* faulty variant of is_running_raiden: the names are compared as they are
is_running_raiden_exact(plat, p) ==
    IF plat = "darwin" /\ p.status = STATUS_ZOMBIE
    THEN FALSE
    ELSE binary_name = p.name /\ ~is_dead(p)

is_running_raiden(plat, p) ==
    IF plat = "darwin" /\ p.status = STATUS_ZOMBIE
    THEN FALSE
    ELSE lower(binary_name) = lower(p.name) /\ ~is_dead(p)

SetMax(S) == CHOOSE x \in S : \A y \in S : y <= x

get_process_id(plat, table) ==
    LET processes == {p \in Pids : table[p] # NoProc /\ is_running_raiden(plat, table[p])}
    IN  IF processes = {} THEN NoPid ELSE SetMax(processes)

is_running(plat, table) == get_process_id(plat, table) # NoPid

\* is_zombie for a cached id whose process exists (psutil.Process raises
\* NoSuchProcess otherwise)
is_zombie(pid, table) ==
    IF pid = NoPid THEN FALSE ELSE table[pid].status = STATUS_ZOMBIE

\* the condition of line 250 on a process table: the scan finds no process,
\* or the process it finds is a zombie
unresolvable(plat, table) ==
    ~is_running(plat, table) \/ is_zombie(get_process_id(plat, table), table)

\* ----------------------------------------------------------- environment

Installed == [bytes |-> "raiden-a", mode |-> Mode770]

\* another instance of the binary is started by someone else
EnvSpawn(pid) ==
    /\ procs[pid] = NoProc
    /\ UNCHANGED <<releasevars, spawned>>
    /\ procs' = [procs EXCEPT ![pid] = [name |-> binary_name, status |-> STATUS_RUNNING]]
    /\ polled_dead' = (polled_dead /\ unresolvable(platform, procs'))
    /\ UNCHANGED <<platform, process_id, folder, file, pc, status_callback,
                   events, callbacks, last>>

\* a running process exits and waits to be reaped
EnvExit(pid, st) ==
    /\ procs[pid] # NoProc
    /\ UNCHANGED <<releasevars, spawned>>
    /\ procs[pid].status = STATUS_RUNNING
    /\ procs' = [procs EXCEPT ![pid].status = st]
    /\ polled_dead' = (polled_dead /\ unresolvable(platform, procs'))
    /\ UNCHANGED <<platform, process_id, folder, file, pc, status_callback,
                   events, callbacks, last>>

\* an exited process is reaped and leaves the process table
EnvReap(pid) ==
    /\ procs[pid] # NoProc
    /\ UNCHANGED releasevars
    /\ spawned' = IF pid = spawned THEN NoPid ELSE spawned
    /\ procs[pid].status # STATUS_RUNNING
    /\ procs' = [procs EXCEPT ![pid] = NoProc]
    /\ polled_dead' = (polled_dead /\ unresolvable(platform, procs'))
    /\ UNCHANGED <<platform, process_id, folder, file, pc, status_callback,
                   events, callbacks, last>>

\* ------------------------------------------------------------ controller

\* a descriptor is constructed: the scan's result becomes the cached id
__init__ ==
    /\ pc = "idle"
    /\ UNCHANGED <<releasevars, spawned>>
    /\ process_id' = get_process_id(platform, procs)
    /\ last' = Op("__init__", Returned, TRUE, NoPid, FALSE, FALSE)
    /\ events' = <<>>
    /\ callbacks' = <<>>
    /\ UNCHANGED <<platform, procs, folder, file, pc, status_callback, polled_dead>>

\* whether the file at install_path can be executed by its owner
Executable(f) == f # NoFile /\ "ux" \in f.mode

\* launch: Popen of install_path; the child's pid is cached
launch ==
    /\ pc = "idle"
    /\ UNCHANGED releasevars
    /\ IF Executable(file)
       THEN \E pid \in Pids :
                /\ procs[pid] = NoProc
                /\ procs' = [procs EXCEPT ![pid] =
                                [name |-> binary_name, status |-> STATUS_RUNNING]]
                /\ process_id' = pid
                /\ spawned' = pid
                /\ last' = Op("launch", Returned, FALSE, NoPid, FALSE, FALSE)
       ELSE /\ last' = Op("launch", LaunchError, FALSE, NoPid, FALSE, FALSE)
            /\ UNCHANGED <<procs, process_id, spawned>>
    /\ events' = <<>>
    /\ callbacks' = <<>>
    /\ UNCHANGED <<platform, folder, file, pc, status_callback, polled_dead>>

\* faulty variant of kill: without a cached id it looks for the process itself
kill_scanning ==
    /\ pc = "idle"
    /\ UNCHANGED releasevars
    /\ spawned' = NoPid
    /\ LET target == IF process_id = NoPid
                     THEN get_process_id(platform, procs)
                     ELSE process_id
       IN  IF target = NoPid
           THEN /\ last' = Op("kill", Returned, process_id = NoPid, NoPid, FALSE, FALSE)
                /\ UNCHANGED <<procs, process_id>>
           ELSE IF procs[target] = NoProc
           THEN /\ last' = Op("kill", NoSuchProcess, FALSE, NoPid, FALSE, FALSE)
                /\ UNCHANGED <<procs, process_id>>
           ELSE /\ procs' = [procs EXCEPT ![target] = NoProc]
                /\ process_id' = get_process_id(platform, procs')
                /\ last' = Op("kill",
                              IF process_id' = NoPid THEN Returned ELSE AssertionError,
                              TRUE, target, FALSE, FALSE)
    /\ events' = <<>>
    /\ callbacks' = <<>>
    /\ UNCHANGED <<platform, folder, file, pc, status_callback, polled_dead>>

\* faulty variant of kill: the scan after the kill is not asserted on
kill_unasserted ==
    /\ pc = "idle"
    /\ UNCHANGED releasevars
    /\ spawned' = NoPid
    /\ IF process_id = NoPid
       THEN /\ last' = Op("kill", Returned, FALSE, NoPid, FALSE, FALSE)
            /\ UNCHANGED <<procs, process_id>>
       ELSE IF procs[process_id] = NoProc
       THEN /\ last' = Op("kill", NoSuchProcess, FALSE, NoPid, FALSE, FALSE)
            /\ UNCHANGED <<procs, process_id>>
       ELSE /\ procs' = [procs EXCEPT ![process_id] = NoProc]
            /\ process_id' = get_process_id(platform, procs')
            /\ last' = Op("kill", Returned, TRUE, process_id, FALSE, FALSE)
    /\ events' = <<>>
    /\ callbacks' = <<>>
    /\ UNCHANGED <<platform, folder, file, pc, status_callback, polled_dead>>

\* kill: nothing without a cached id; otherwise kill the cached process, wait
\* for it, scan again and assert that the scan finds nothing
kill ==
    /\ pc = "idle"
    /\ UNCHANGED releasevars
    /\ spawned' = NoPid
    /\ IF process_id = NoPid
       THEN /\ last' = Op("kill", Returned, FALSE, NoPid, FALSE, FALSE)
            /\ UNCHANGED <<procs, process_id>>
       ELSE IF procs[process_id] = NoProc
       THEN /\ last' = Op("kill", NoSuchProcess, FALSE, NoPid, FALSE, FALSE)
            /\ UNCHANGED <<procs, process_id>>
       ELSE /\ procs' = [procs EXCEPT ![process_id] = NoProc]
            /\ process_id' = get_process_id(platform, procs')
            /\ last' = Op("kill",
                          IF process_id' = NoPid THEN Returned ELSE AssertionError,
                          TRUE, process_id, FALSE, FALSE)
    /\ events' = <<>>
    /\ callbacks' = <<>>
    /\ UNCHANGED <<platform, folder, file, pc, status_callback, polled_dead>>

\* outcomes of the status properties
ReturnedTrue == "returned True"
ReturnedFalse == "returned False"
Bool(b) == IF b THEN ReturnedTrue ELSE ReturnedFalse

\* faulty variant of is_running_get: the scan is stored in the cached id
is_running_get_caching ==
    /\ pc = "idle"
    /\ UNCHANGED <<releasevars, spawned>>
    /\ process_id' = get_process_id(platform, procs)
    /\ last' = Op("is_running", Bool(process_id' # NoPid), TRUE, NoPid, FALSE, FALSE)
    /\ events' = <<>>
    /\ callbacks' = <<>>
    /\ UNCHANGED <<platform, procs, folder, file, pc, status_callback, polled_dead>>

\* the property is_running is read: a scan, nothing stored
is_running_get ==
    /\ pc = "idle"
    /\ UNCHANGED <<releasevars, spawned>>
    /\ last' = Op("is_running", Bool(is_running(platform, procs)), TRUE, NoPid, FALSE, FALSE)
    /\ events' = <<>>
    /\ callbacks' = <<>>
    /\ UNCHANGED <<platform, procs, process_id, folder, file, pc, status_callback,
                   polled_dead>>

\* the property is_zombie is read: the status of the cached process
is_zombie_get ==
    /\ pc = "idle"
    /\ UNCHANGED <<releasevars, spawned>>
    /\ last' = Op("is_zombie",
                  IF process_id # NoPid /\ procs[process_id] = NoProc
                  THEN NoSuchProcess
                  ELSE Bool(is_zombie(process_id, procs)),
                  FALSE, NoPid, FALSE, FALSE)
    /\ events' = <<>>
    /\ callbacks' = <<>>
    /\ UNCHANGED <<platform, procs, process_id, folder, file, pc, status_callback,
                   polled_dead>>

\* the property is_installed is read
is_installed_get ==
    /\ pc = "idle"
    /\ UNCHANGED <<releasevars, spawned>>
    /\ last' = Op("is_installed", Bool(file # NoFile), FALSE, NoPid, FALSE, FALSE)
    /\ events' = <<>>
    /\ callbacks' = <<>>
    /\ UNCHANGED <<platform, procs, process_id, folder, file, pc, status_callback,
                   polled_dead>>

\* ------------------------------------------------------- readiness wait

\* faulty variant of check_status_api_calls: the callback also gets "ready"
check_status_api_calls_every_body(cb, answer) ==
    IF answer.code = "200" /\ cb THEN <<answer.body>> ELSE <<>>

\* check_status_api: what one GET of the status endpoint hands to the
\* callback (a sequence of at most one body) ...
check_status_api_calls(cb, answer) ==
    IF answer.code = "200" /\ answer.body # "ready" /\ cb
    THEN <<answer.body>>
    ELSE <<>>

\* faulty variant of check_status_api: any 200 answer ends the status phase
check_status_api_any_200(answer) == answer.code = "200"

\* ... and what it returns
check_status_api(answer) ==
    answer.code = "200" /\ answer.body = "ready"

\* faulty variant of WaitStart: the first scan is stored in the cached id
WaitStart_caching(cb) ==
    /\ pc = "idle"
    /\ UNCHANGED <<releasevars, spawned>>
    /\ status_callback' = cb
    /\ events' = <<>>
    /\ callbacks' = <<>>
    /\ polled_dead' = FALSE
    /\ process_id' = get_process_id(platform, procs)
    /\ IF process_id' = NoPid
       THEN /\ pc' = "idle"
            /\ last' = Op("wait_for_web_ui_ready", NotRunning, TRUE, NoPid, FALSE, FALSE)
       ELSE /\ pc' = "refresh"
            /\ last' = Op("wait_for_web_ui_ready", Pending, TRUE, NoPid, FALSE, FALSE)
    /\ UNCHANGED <<platform, procs, folder, file>>

\* wait_for_web_ui_ready is called: without a resolvable process it raises
\* at once, otherwise it enters its loop
WaitStart(cb) ==
    /\ pc = "idle"
    /\ UNCHANGED <<releasevars, spawned>>
    /\ status_callback' = cb
    /\ events' = <<>>
    /\ callbacks' = <<>>
    /\ polled_dead' = FALSE
    /\ IF ~is_running(platform, procs)
       THEN /\ pc' = "idle"
            /\ last' = Op("wait_for_web_ui_ready", NotRunning, TRUE, NoPid, FALSE, FALSE)
       ELSE /\ pc' = "refresh"
            /\ last' = Op("wait_for_web_ui_ready", Pending, TRUE, NoPid, FALSE, FALSE)
    /\ UNCHANGED <<platform, procs, process_id, folder, file>>

\* top of the outer loop: refresh the cached id, give up when the process
\* is gone or a zombie
WaitRefresh ==
    /\ pc = "refresh"
    /\ UNCHANGED <<releasevars, spawned>>
    /\ process_id' = get_process_id(platform, procs)
    /\ IF ~is_running(platform, procs) \/ is_zombie(process_id', procs)
       THEN /\ pc' = "idle"
            /\ last' = [last EXCEPT !.raised = ProcessTerminated]
       ELSE /\ pc' = "poll"
            /\ last' = last
    /\ polled_dead' = (polled_dead /\ pc' # "idle")
    /\ UNCHANGED <<platform, procs, folder, file, status_callback, events, callbacks>>

\* faulty variant of WaitPoll: the inner loop gives up after three answers
WaitPoll_ceiling(answer) ==
    /\ pc = "poll"
    /\ UNCHANGED <<releasevars, spawned>>
    /\ Len(events) < MaxEvents
    /\ events' = Append(events, answer.body)
    /\ callbacks' = callbacks \o check_status_api_calls(status_callback, answer)
    /\ polled_dead' = unresolvable(platform, procs)
    /\ IF check_status_api(answer)
       THEN pc' = "connect" /\ last' = last
       ELSE IF Len(events') >= 3
       THEN pc' = "idle" /\ last' = [last EXCEPT !.raised = "TimeoutError"]
       ELSE pc' = "poll" /\ last' = last
    /\ UNCHANGED <<platform, procs, process_id, folder, file, status_callback>>

\* one round of the inner loop: check_status_api, then sleep or leave
WaitPoll(answer) ==
    /\ pc = "poll"
    /\ UNCHANGED <<releasevars, spawned>>
    /\ Len(events) < MaxEvents
    /\ events' = Append(events, answer.body)
    /\ callbacks' = callbacks \o check_status_api_calls(status_callback, answer)
    /\ pc' = IF check_status_api(answer) THEN "connect" ELSE "poll"
    /\ polled_dead' = unresolvable(platform, procs)
    /\ UNCHANGED <<platform, procs, process_id, folder, file, status_callback, last>>

\* faulty variant of WaitConnect: a failed connect is retried on its own
WaitConnect_retry_connect(answer) ==
    /\ pc = "connect"
    /\ UNCHANGED <<releasevars, spawned>>
    /\ Len(events) < MaxEvents
    /\ events' = Append(events, answer)
    /\ polled_dead' = (unresolvable(platform, procs) /\ answer # "connected")
    /\ IF answer = "connected"
       THEN /\ pc' = "idle"
            /\ last' = [last EXCEPT !.raised = Returned]
       ELSE /\ pc' = "connect"
            /\ last' = last
    /\ UNCHANGED <<platform, procs, process_id, folder, file, status_callback, callbacks>>

\* the TCP connect after the status phase: return when connected, otherwise
\* sleep and go round the outer loop
WaitConnect(answer) ==
    /\ pc = "connect"
    /\ UNCHANGED <<releasevars, spawned>>
    /\ Len(events) < MaxEvents
    /\ events' = Append(events, answer)
    /\ polled_dead' = (unresolvable(platform, procs) /\ answer # "connected")
    /\ IF answer = "connected"
       THEN /\ pc' = "idle"
            /\ last' = [last EXCEPT !.raised = Returned]
       ELSE /\ pc' = "refresh"
            /\ last' = last
    /\ UNCHANGED <<platform, procs, process_id, folder, file, status_callback, callbacks>>

\* ------------------------------------------------------------- installer

FILE_NAME_SUFFIX(plat) ==
    IF plat = "darwin" THEN "macOS-x86_64.zip" ELSE "linux-x86_64.tar.gz"

\* download_url.endswith("gz") for an asset named with FILE_NAME_SUFFIX
endswith_gz(plat) == FILE_NAME_SUFFIX(plat) = "linux-x86_64.tar.gz"

\* destination_path.open("wb"): the file is created or truncated
open_wb(dest) ==
    [bytes |-> EmptyBytes, mode |-> IF dest = NoFile THEN ModeCreated ELSE dest.mode]

\* _extract_zip: open the archive, open the destination, write the bytes
\* of filelist[0] (no bytes for a directory entry)
extract_zip(content, dest) ==
    CASE content.kind = "corrupt"  -> [file |-> dest, raised |-> ExtractionError]
      [] content.kind = "nomember" -> [file |-> open_wb(dest), raised |-> ExtractionError]
      [] content.kind = "nonfile"  -> [file |-> open_wb(dest), raised |-> Returned]
      [] content.kind = "file"     ->
            [file |-> [open_wb(dest) EXCEPT !.bytes = content.payload],
             raised |-> Returned]

\* faulty variant of extract_gzip: the member is looked up before the
\* destination is opened
extract_gzip_member_first(content, dest) ==
    CASE content.kind \in {"corrupt", "nomember"} -> [file |-> dest, raised |-> ExtractionError]
      [] content.kind = "nonfile"  -> [file |-> open_wb(dest), raised |-> Returned]
      [] content.kind = "file"     ->
            [file |-> [open_wb(dest) EXCEPT !.bytes = content.payload],
             raised |-> Returned]

\* _extract_gzip: open the archive, open the destination, write what
\* extractfile(getmembers()[0]) gives, if it gives a file object
extract_gzip(content, dest) ==
    CASE content.kind = "corrupt"  -> [file |-> dest, raised |-> ExtractionError]
      [] content.kind = "nomember" -> [file |-> open_wb(dest), raised |-> ExtractionError]
      [] content.kind = "nonfile"  -> [file |-> open_wb(dest), raised |-> Returned]
      [] content.kind = "file"     ->
            [file |-> [open_wb(dest) EXCEPT !.bytes = content.payload],
             raised |-> Returned]

\* faulty variant of chmod: 0o700
chmod_owner_only(f) == [f EXCEPT !.mode = {"ur", "uw", "ux"}]

\* os.chmod(install_path, 0o770)
chmod(f) == [f EXCEPT !.mode = Mode770]

\* faulty variant of already_exists: the test is missing
already_exists_unchecked(f, force) == FALSE

\* the test of line 181
already_exists(f, force) == f # NoFile /\ ~force

\* faulty variant of raise_for_status: the response is not checked
raise_for_status_unchecked(download) == FALSE

\* download.raise_for_status(): whether it raises
raise_for_status(download) == ~download.ok

install(force, download) ==
    /\ pc = "idle"
    /\ UNCHANGED <<releasevars, spawned>>
    /\ IF already_exists(file, force)
       THEN /\ last' = Op("install", AlreadyInstalled, FALSE, NoPid, FALSE, force)
            /\ UNCHANGED <<folder, file>>
       ELSE /\ folder' = TRUE
            /\ IF raise_for_status(download)
               THEN /\ last' = Op("install", DownloadError, FALSE, NoPid, TRUE, force)
                    /\ file' = file
               ELSE LET action == IF endswith_gz(platform)
                                  THEN extract_gzip(download.content, file)
                                  ELSE extract_zip(download.content, file)
                    IN  /\ last' = Op("install", action.raised, FALSE, NoPid, TRUE, force)
                        /\ file' = IF action.raised = Returned
                                   THEN chmod(action.file)
                                   ELSE action.file
    /\ events' = <<>>
    /\ callbacks' = <<>>
    /\ UNCHANGED <<platform, procs, process_id, pc, status_callback, polled_dead>>


\* ------------------------------------------------------ release ordering

RaidenRelease == "RaidenRelease"
RaidenTestnetRelease == "RaidenTestnetRelease"
RaidenNightly == "RaidenNightly"

\* the decimal strings the regular expressions capture with \d+, and their
\* characters
Numerals == {"2", "9", "10"}
digits(s) ==
    CASE s = "2" -> <<2>>
      [] s = "9" -> <<9>>
      [] s = "10" -> <<1, 0>>

\* int(s)
RECURSIVE digits_value(_)
digits_value(d) ==
    IF d = <<>> THEN 0 ELSE digits_value(SubSeq(d, 1, Len(d) - 1)) * 10 + d[Len(d)]
int(s) == digits_value(digits(s))

\* s < t on python strings: lexicographic on the characters
RECURSIVE chars_lt(_, _)
chars_lt(u, v) ==
    IF v = <<>> THEN FALSE
    ELSE IF u = <<>> THEN TRUE
    ELSE IF u[1] # v[1] THEN u[1] < v[1]
    ELSE chars_lt(Tail(u), Tail(v))
str_lt(s, t) == chars_lt(digits(s), digits(t))
str_gt(s, t) == chars_lt(digits(t), digits(s))

\* VersionData.extra: absent or empty, or a word followed by a number
\* ("rc2", "alpha10", "dev2")
NoExtra == [word |-> "", number |-> ""]
Words == {"dev", "a", "alpha", "b", "beta", "rc"}
ModifierNumbers == {"2", "10"}
Extras == {NoExtra} \cup [word : Words, number : ModifierNumbers]
Components == {"9", "10"}
VersionData == [major : Components, minor : Components, revision : Components,
                extra : Extras]

\* release_datetime of a nightly build; other descriptors have none
NoDatetime == 0
Timestamps == {1, 2, 3}

\* an index entry from which no descriptor is made
NoRelease ==
    [cls |-> None,
     version_data |-> [major |-> "", minor |-> "", revision |-> "", extra |-> NoExtra],
     release_datetime |-> NoDatetime]

\* RaidenRelease.FILE_NAME_PATTERN has no group "extra"
Releases ==
    [cls : {RaidenRelease},
     version_data : {v \in VersionData : v.extra = NoExtra},
     release_datetime : {NoDatetime}]
    \cup [cls : {RaidenTestnetRelease}, version_data : VersionData,
          release_datetime : {NoDatetime}]
    \cup [cls : {RaidenNightly}, version_data : VersionData,
          release_datetime : Timestamps]

\* no match of (a|alpha|b|beta|rc)-?\d+, or no release name
NoModifier == [release |-> None, number |-> None]

extract_version_modifier(release_name) ==
    IF release_name = NoExtra THEN NoModifier
    ELSE IF release_name.word \notin {"a", "alpha", "b", "beta", "rc"} THEN NoModifier
    ELSE [release |-> CASE release_name.word \in {"a", "alpha"} -> "alpha"
                        [] release_name.word \in {"b", "beta"} -> "beta"
                        [] release_name.word = "rc" -> "rc",
          number |-> release_name.number]

order_version_modifier(version_modifier) ==
    CASE version_modifier = "dev" -> 0
      [] version_modifier = "alpha" -> 1
      [] version_modifier = "beta" -> 2
      [] version_modifier = "rc" -> 3
      [] OTHER -> -1

version_modifier(self) == extract_version_modifier(self.version_data.extra).release
version_modifier_number(self) == extract_version_modifier(self.version_data.extra).number

__eq__(self, other) ==
    /\ self.version_data.major = other.version_data.major
    /\ self.version_data.minor = other.version_data.minor
    /\ self.version_data.revision = other.version_data.revision
    /\ version_modifier(self) = version_modifier(other)
    /\ version_modifier_number(self) = version_modifier_number(other)

__lt__(self, other) ==
    IF self.version_data.major # other.version_data.major
    THEN str_lt(self.version_data.major, other.version_data.major)
    ELSE IF self.version_data.minor # other.version_data.minor
    THEN str_lt(self.version_data.minor, other.version_data.minor)
    ELSE IF self.version_data.revision # other.version_data.revision
    THEN str_lt(self.version_data.revision, other.version_data.revision)
    ELSE IF version_modifier(self) # version_modifier(other)
    THEN order_version_modifier(version_modifier(self))
            < order_version_modifier(version_modifier_number(other))
    ELSE IF version_modifier_number(self) # None /\ version_modifier_number(other) # None
    THEN str_lt(version_modifier_number(self), version_modifier_number(other))
    ELSE FALSE

__gt__(self, other) ==
    IF self.version_data.major # other.version_data.major
    THEN str_gt(self.version_data.major, other.version_data.major)
    ELSE IF self.version_data.minor # other.version_data.minor
    THEN str_gt(self.version_data.minor, other.version_data.minor)
    ELSE IF self.version_data.revision # other.version_data.revision
    THEN str_gt(self.version_data.revision, other.version_data.revision)
    ELSE IF version_modifier(self) # version_modifier(other)
    THEN order_version_modifier(version_modifier(self))
            > order_version_modifier(version_modifier(other))
    ELSE IF version_modifier_number(self) # None /\ version_modifier_number(other) # None
    THEN str_gt(version_modifier_number(self), version_modifier_number(other))
    ELSE FALSE

\* faulty variant of RaidenNightly__eq__: the comparison of RaidenClient
RaidenNightly__eq__inherited(self, other) == __eq__(self, other)

\* RaidenNightly overrides the three comparisons
RaidenNightly__eq__(self, other) == self.release_datetime = other.release_datetime
RaidenNightly__lt__(self, other) == self.release_datetime < other.release_datetime
RaidenNightly__gt__(self, other) == self.release_datetime > other.release_datetime

\* a == b, a < b, a > b: the method of a's class
eq(a, b) == IF a.cls = RaidenNightly THEN RaidenNightly__eq__(a, b) ELSE __eq__(a, b)
lt(a, b) == IF a.cls = RaidenNightly THEN RaidenNightly__lt__(a, b) ELSE __lt__(a, b)
gt(a, b) == IF a.cls = RaidenNightly THEN RaidenNightly__gt__(a, b) ELSE __gt__(a, b)

\* left == right, left < right, left > right are evaluated
Equal ==
    /\ left # NoRelease
    /\ last' = Op("__eq__", Bool(eq(left, right)), FALSE, NoPid, FALSE, FALSE)
    /\ UNCHANGED <<clientvars, releasevars>>

Less ==
    /\ left # NoRelease
    /\ last' = Op("__lt__", Bool(lt(left, right)), FALSE, NoPid, FALSE, FALSE)
    /\ UNCHANGED <<clientvars, releasevars>>

Greater ==
    /\ left # NoRelease
    /\ last' = Op("__gt__", Bool(gt(left, right)), FALSE, NoPid, FALSE, FALSE)
    /\ UNCHANGED <<clientvars, releasevars>>

\* --------------------------------------------------------- specifications

\* ------------------------------------------------------- release listing

MaxListed == 3         \* entries of a release index

\* sorted(): list.sort of CPython on a short list.  The leading run is
\* found with < (a strictly descending one is reversed), the remaining
\* elements are inserted by binary search; reverse=True reverses the list
\* before and after.  Only < is ever asked.
Reverse(seq) == [i \in 1..Len(seq) |-> seq[Len(seq) + 1 - i]]

RECURSIVE run_end(_, _, _)
run_end(lst, n, descending) ==
    IF n < Len(lst) /\ (lt(lst[n + 1], lst[n]) = descending)
    THEN run_end(lst, n + 1, descending)
    ELSE n

count_run(lst) ==
    IF Len(lst) <= 1 THEN [n |-> Len(lst), lst |-> lst]
    ELSE LET descending == lt(lst[2], lst[1])
             n == run_end(lst, 2, descending)
         IN  [n |-> n,
              lst |-> IF descending
                      THEN Reverse(SubSeq(lst, 1, n)) \o SubSeq(lst, n + 1, Len(lst))
                      ELSE lst]

RECURSIVE bisect(_, _, _, _)
bisect(lst, pivot, l, r) ==
    IF l >= r THEN l
    ELSE LET p == l + ((r - l) \div 2)
         IN  IF lt(pivot, lst[p]) THEN bisect(lst, pivot, l, p)
             ELSE bisect(lst, pivot, p + 1, r)

RECURSIVE binarysort(_, _)
binarysort(lst, start) ==
    IF start > Len(lst) THEN lst
    ELSE LET pivot == lst[start]
             l == bisect(lst, pivot, 1, start)
         IN  binarysort(SubSeq(lst, 1, l - 1) \o <<pivot>> \o SubSeq(lst, l, start - 1)
                            \o SubSeq(lst, start + 1, Len(lst)),
                        start + 1)

list_sort(lst) ==
    LET run == count_run(lst) IN binarysort(run.lst, run.n + 1)

sorted(lst, reverse) ==
    IF reverse THEN Reverse(list_sort(Reverse(lst))) ELSE list_sort(lst)

Classes == {RaidenRelease, RaidenTestnetRelease, RaidenNightly}

ValueError == "ValueError"

\* An index entry (a release record of GitHub with its assets, a Contents
\* node of the bucket listing with its keys) is the sequence of its names.
\* A name is written as the descriptor made from it, as NoRelease when it
\* does not match the file pattern of the class, and as BadDate when it
\* matches the nightly pattern with date fields datetime() rejects.
BadDate ==
    [cls |-> ValueError,
     version_data |-> [major |-> "", minor |-> "", revision |-> "", extra |-> NoExtra],
     release_datetime |-> NoDatetime]

IsRelease(r) == r # NoRelease

\* RaidenClient._make_release: the descriptor of the first asset whose name
\* matches, None when there is none
_make_release(release_data) ==
    LET matching == SelectSeq(release_data, IsRelease)
    IN  IF matching = <<>> THEN NoRelease ELSE matching[1]

\* RaidenClient._make_releases: [raised, releases]
_make_releases(index_response) ==
    [raised |-> Returned,
     releases |-> SelectSeq([i \in 1..Len(index_response) |->
                                _make_release(index_response[i])], IsRelease)]

\* RaidenNightly._make_releases: the first key of every Contents node; a key
\* that does not match is skipped, datetime() raises ValueError
RaidenNightly_make_releases(index_response) ==
    LET all_keys == [i \in 1..Len(index_response) |-> index_response[i][1]]
    IN  IF \E i \in 1..Len(all_keys) : all_keys[i] = BadDate
        THEN [raised |-> ValueError, releases |-> <<>>]
        ELSE [raised |-> Returned, releases |-> SelectSeq(all_keys, IsRelease)]

make_releases(cls, index_response) ==
    IF cls = RaidenNightly THEN RaidenNightly_make_releases(index_response)
    ELSE _make_releases(index_response)

\* faulty variant of available_releases: the cache is never consulted
available_releases_uncached(cls, ok) ==
    IF ~ok
    THEN [raised |-> DownloadError, requested |-> TRUE, value |-> <<>>, cache |-> cache]
    ELSE LET made == make_releases(cls, index[cls])
             releases == sorted(made.releases, TRUE)
         IN  IF made.raised # Returned
             THEN [raised |-> made.raised, requested |-> TRUE, value |-> <<>>,
                   cache |-> cache]
             ELSE [raised |-> Returned, requested |-> TRUE, value |-> releases,
                   cache |-> [cache EXCEPT ![cls] = <<releases>>]]

\* cls.get_available_releases() in the present state: the cached result if
\* there is one; otherwise the index is requested and, unless the request or
\* the making of the descriptors raises, they are sorted descending and
\* cached.  [raised, requested, value, cache]
available_releases(cls, ok) ==
    IF cache[cls] # <<>>
    THEN [raised |-> Returned, requested |-> FALSE, value |-> cache[cls][1],
          cache |-> cache]
    ELSE IF ~ok
    THEN [raised |-> DownloadError, requested |-> TRUE, value |-> <<>>, cache |-> cache]
    ELSE LET made == make_releases(cls, index[cls])
             releases == sorted(made.releases, TRUE)
         IN  IF made.raised # Returned
             THEN [raised |-> made.raised, requested |-> TRUE, value |-> <<>>,
                   cache |-> cache]
             ELSE [raised |-> Returned, requested |-> TRUE, value |-> releases,
                   cache |-> [cache EXCEPT ![cls] = <<releases>>]]

\* RaidenNightly.release: the version and the day of the timestamp
\* (strftime("%Y%m%d") drops the time of day: instants 2 and 3 are one day)
strftime_Ymd(release_datetime) == release_datetime \div 2
RaidenNightly_release(self) ==
    [version_data |-> self.version_data, date |-> strftime_Ymd(self.release_datetime)]

NoTag == [version_data |-> NoRelease.version_data, date |-> NoDatetime]

get_available_releases(cls, ok) ==
    /\ pc = "idle"
    /\ LET listing == available_releases(cls, ok)
       IN  /\ cache' = listing.cache
           /\ call' = [cls |-> cls, tag |-> NoTag, value |-> listing.value]
           /\ last' = Op("get_available_releases", listing.raised, FALSE, NoPid,
                         listing.requested, FALSE)
    /\ UNCHANGED <<clientvars, left, right, index>>

\* RaidenNightly.make_by_tag: the listing as get_available_releases gives
\* it, as a dict by release string (a later element replaces an earlier one
\* of the same release string); None when the tag is no key
RaidenNightly_make_by_tag(release_tag, ok) ==
    /\ pc = "idle"
    /\ LET listing == available_releases(RaidenNightly, ok)
           tagged == SelectSeq(listing.value,
                               LAMBDA r : RaidenNightly_release(r) = release_tag)
       IN  /\ cache' = listing.cache
           /\ call' = [cls |-> RaidenNightly, tag |-> release_tag,
                       value |-> IF tagged = <<>> THEN <<>>
                                 ELSE <<tagged[Len(tagged)]>>]
           /\ last' = Op("make_by_tag", listing.raised, FALSE, NoPid,
                         listing.requested, FALSE)
    /\ UNCHANGED <<clientvars, left, right, index>>

\* get_available_releases.cache_clear(), which functools.lru_cache provides
cache_clear ==
    /\ pc = "idle"
    /\ cache' = [c \in Classes |-> <<>>]
    /\ last' = Op("cache_clear", Returned, FALSE, NoPid, FALSE, FALSE)
    /\ UNCHANGED <<clientvars, left, right, index, call>>

\* the number of entries in all indexes
RECURSIVE entries_listed(_, _)
entries_listed(idx, classes) ==
    IF classes = {} THEN 0
    ELSE LET c == CHOOSE x \in classes : TRUE
         IN  Len(idx[c]) + entries_listed(idx, classes \ {c})

\* a release is published: its entry is appended to the index of its channel
Publish(cls, entry) ==
    /\ entries_listed(index, Classes) < MaxListed
    /\ index' = [index EXCEPT ![cls] = Append(@, entry)]
    /\ UNCHANGED <<clientvars, last, left, right, cache, call>>

\* no release is compared or listed
NoCall == [cls |-> None, tag |-> NoTag, value |-> <<>>]

NoReleases ==
    /\ left = NoRelease
    /\ right = NoRelease
    /\ index = [c \in Classes |-> <<>>]
    /\ cache = [c \in Classes |-> <<>>]
    /\ call = NoCall

Platforms == {"linux", "darwin"}

\* The process controller and the readiness wait.  A descriptor has just
\* been constructed (__init__ caches the result of a scan), instances of the
\* binary may already run, and the binary is installed or not.
Init ==
    /\ platform \in Platforms
    /\ procs \in [Pids -> {NoProc, [name |-> binary_name, status |-> STATUS_RUNNING]}]
    /\ process_id = get_process_id(platform, procs)
    /\ file \in {NoFile, Installed}
    /\ folder = (file # NoFile)
    /\ pc = "idle"
    /\ spawned = NoPid
    /\ status_callback = FALSE
    /\ events = <<>>
    /\ callbacks = <<>>
    /\ polled_dead = FALSE
    /\ last = Op("__init__", Returned, TRUE, NoPid, FALSE, FALSE)
    /\ NoReleases

Next ==
    \/ launch
    \/ kill
    \/ \E cb \in BOOLEAN : WaitStart(cb)
    \/ WaitRefresh
    \/ \E answer \in StatusAnswers : WaitPoll(answer)
    \/ \E answer \in ConnectAnswers : WaitConnect(answer)
    \/ \E pid \in Pids : EnvSpawn(pid)
    \/ \E pid \in Pids : \E st \in {STATUS_ZOMBIE, STATUS_DEAD} : EnvExit(pid, st)
    \/ \E pid \in Pids : EnvReap(pid)

Spec == Init /\ [][Next]_vars

\* The installer.  The file at install_path is absent or was written by an
\* earlier run; the descriptor may hold a cached process id.
FileStates ==
    {NoFile} \cup [bytes : Payloads \cup {EmptyBytes}, mode : {Mode770, ModeCreated}]

InitInstall ==
    /\ platform \in Platforms
    /\ procs \in [Pids -> {NoProc, [name |-> binary_name, status |-> STATUS_RUNNING]}]
    /\ process_id \in {NoPid} \cup Pids
    /\ file \in FileStates
    /\ folder \in BOOLEAN
    /\ file # NoFile => folder
    /\ pc = "idle"
    /\ spawned = NoPid
    /\ status_callback = FALSE
    /\ events = <<>>
    /\ callbacks = <<>>
    /\ polled_dead = FALSE
    /\ last = Op("__init__", Returned, TRUE, NoPid, FALSE, FALSE)
    /\ NoReleases

NextInstall ==
    \E force \in BOOLEAN : \E download \in Downloads : install(force, download)

SpecInstall == InitInstall /\ [][NextInstall]_vars

\* The methods of one descriptor called one after another: install, launch,
\* the status properties, the readiness wait and kill.  Instances of the
\* binary may run when the descriptor is constructed; no process starts or
\* exits on its own.
InitLife ==
    /\ platform \in Platforms
    /\ procs \in [Pids -> {NoProc, [name |-> binary_name, status |-> STATUS_RUNNING]}]
    /\ process_id = get_process_id(platform, procs)
    /\ file \in FileStates
    /\ folder \in BOOLEAN
    /\ file # NoFile => folder
    /\ pc = "idle"
    /\ spawned = NoPid
    /\ status_callback = FALSE
    /\ events = <<>>
    /\ callbacks = <<>>
    /\ polled_dead = FALSE
    /\ last = Op("__init__", Returned, TRUE, NoPid, FALSE, FALSE)
    /\ NoReleases

NextLife ==
    \/ launch
    \/ kill
    \/ \E cb \in BOOLEAN : WaitStart(cb)
    \/ WaitRefresh
    \/ \E answer \in StatusAnswers : WaitPoll(answer)
    \/ \E answer \in ConnectAnswers : WaitConnect(answer)
    \/ \E force \in BOOLEAN : \E download \in Downloads : install(force, download)
    \/ is_running_get
    \/ is_zombie_get
    \/ is_installed_get

SpecLife == InitLife /\ [][NextLife]_vars

\* The process scan and the status properties as functions of the process
\* table: any process table (other programs, the binary under another
\* spelling, exited processes), a descriptor constructed on it, its
\* properties read, kill() called on it.
NotConstructed == "not constructed"

InitScan ==
    /\ platform \in Platforms
    /\ procs \in [Pids -> ProcEntries]
    /\ process_id = NoPid
    /\ file = NoFile
    /\ folder = FALSE
    /\ pc = "idle"
    /\ spawned = NoPid
    /\ status_callback = FALSE
    /\ events = <<>>
    /\ callbacks = <<>>
    /\ polled_dead = FALSE
    /\ last = Op(NotConstructed, Returned, FALSE, NoPid, FALSE, FALSE)
    /\ NoReleases

NextScan ==
    \/ __init__
    \/ last.op # NotConstructed /\ is_running_get
    \/ last.op # NotConstructed /\ is_zombie_get
    \/ last.op # NotConstructed /\ kill

SpecScan == InitScan /\ [][NextScan]_vars

\* The comparisons as functions of two descriptors of one class.
InitOrder ==
    /\ left \in Releases
    /\ right \in {r \in Releases : r.cls = left.cls}
    /\ index = [c \in Classes |-> <<>>]
    /\ cache = [c \in Classes |-> <<>>]
    /\ call = NoCall
    /\ platform = "linux"
    /\ procs = [p \in Pids |-> NoProc]
    /\ process_id = NoPid
    /\ file = NoFile
    /\ folder = FALSE
    /\ pc = "idle"
    /\ spawned = NoPid
    /\ status_callback = FALSE
    /\ events = <<>>
    /\ callbacks = <<>>
    /\ polled_dead = FALSE
    /\ last = Op("__init__", Returned, TRUE, NoPid, FALSE, FALSE)

NextOrder ==
    \/ Equal
    \/ Less
    \/ Greater

SpecOrder == InitOrder /\ [][NextOrder]_vars

\* The listing as a function of the index: any index of at most MaxListed
\* entries of one channel, some of them without a usable asset or key.
ListedVersions ==
    {v \in VersionData : v.minor = "9" /\ v.revision = "9"
                         /\ v.extra \in {NoExtra, [word |-> "rc", number |-> "2"],
                                         [word |-> "rc", number |-> "10"],
                                         [word |-> "b", number |-> "2"]}}

Listed(cls) ==
    {r \in Releases : /\ r.cls = cls
                      /\ r.version_data \in ListedVersions
                      /\ cls = RaidenNightly => r.version_data.extra = NoExtra}

\* entries with one name, matching or not
Entries(cls) == {<<name>> : name \in Listed(cls) \cup {NoRelease}}

InitLatest ==
    /\ \E cls \in Classes : \E n \in 0..MaxListed : \E entries \in [1..n -> Entries(cls)] :
          index = [c \in Classes |-> IF c = cls THEN entries ELSE <<>>]
    /\ cache = [c \in Classes |-> <<>>]
    /\ call = NoCall
    /\ left = NoRelease
    /\ right = NoRelease
    /\ platform = "linux"
    /\ procs = [p \in Pids |-> NoProc]
    /\ process_id = NoPid
    /\ file = NoFile
    /\ folder = FALSE
    /\ pc = "idle"
    /\ spawned = NoPid
    /\ status_callback = FALSE
    /\ events = <<>>
    /\ callbacks = <<>>
    /\ polled_dead = FALSE
    /\ last = Op("__init__", Returned, TRUE, NoPid, FALSE, FALSE)

NextLatest ==
    \E cls \in Classes : \E ok \in BOOLEAN : get_available_releases(cls, ok)

SpecLatest == InitLatest /\ [][NextLatest]_vars

\* Listing and tag resolution over time: releases are published to the
\* indexes, channels are listed, nightly tags are resolved, the cache is
\* cleared.
TestnetV9 ==
    [cls |-> RaidenTestnetRelease,
     version_data |-> [major |-> "9", minor |-> "9", revision |-> "9", extra |-> NoExtra],
     release_datetime |-> NoDatetime]
TestnetV10 == [TestnetV9 EXCEPT !.version_data.major = "10"]
NightlyAt(t) == [TestnetV9 EXCEPT !.cls = RaidenNightly, !.release_datetime = t]

Published(cls) ==
    CASE cls = RaidenRelease -> {<<[TestnetV9 EXCEPT !.cls = RaidenRelease]>>}
      [] cls = RaidenTestnetRelease ->
            {<<NoRelease>>, <<NoRelease, TestnetV9>>, <<TestnetV10, TestnetV9>>}
      [] cls = RaidenNightly ->
            {<<NightlyAt(t)>> : t \in Timestamps} \cup {<<NoRelease>>, <<BadDate>>}

Tags == {RaidenNightly_release(NightlyAt(t)) : t \in Timestamps}

InitListing ==
    /\ index = [c \in Classes |-> <<>>]
    /\ cache = [c \in Classes |-> <<>>]
    /\ call = NoCall
    /\ left = NoRelease
    /\ right = NoRelease
    /\ platform = "linux"
    /\ procs = [p \in Pids |-> NoProc]
    /\ process_id = NoPid
    /\ file = NoFile
    /\ folder = FALSE
    /\ pc = "idle"
    /\ spawned = NoPid
    /\ status_callback = FALSE
    /\ events = <<>>
    /\ callbacks = <<>>
    /\ polled_dead = FALSE
    /\ last = Op("__init__", Returned, TRUE, NoPid, FALSE, FALSE)

NextListing ==
    \/ \E cls \in Classes : \E entry \in Published(cls) : Publish(cls, entry)
    \/ \E cls \in Classes : \E ok \in BOOLEAN : get_available_releases(cls, ok)
    \/ \E release_tag \in Tags : \E ok \in BOOLEAN : RaidenNightly_make_by_tag(release_tag, ok)
    \/ cache_clear

SpecListing == InitListing /\ [][NextListing]_vars

\* ================================================================ claims

WAIT == "wait_for_web_ui_ready"
HttpEvents == {REFUSED} \cup StatusBodies
FailedConnects == ConnectAnswers \ {"connected"}

\* C1: whenever wait_for_web_ui_ready has returned, the last two answers it
\* observed are a status body "ready" and then a successful TCP connect.
C1_ReadyThenConnected ==
    (last.op = WAIT /\ last.raised = Returned)
        => /\ Len(events) >= 2
           /\ events[Len(events) - 1] = "ready"
           /\ events[Len(events)] = "connected"

\* C1 witness: a call that returned after polls that were not ready
C1_Witness ==
    /\ last.op = WAIT
    /\ last.raised = Returned
    /\ Len(events) >= 3

\* C2 (as claimed): once the process is unresolvable (gone from the scan, or
\* a zombie) the wait stops asking: it makes no request when its previous
\* request was already made with the process unresolvable and the process
\* has been unresolvable ever since.
C2_DeathStopsPolling ==
    [][(events' # events) => ~polled_dead]_vars

\* C3 (as claimed): after a failed TCP connect the call observes no further
\* status answer.
C3_NoStatusAfterFailedConnect ==
    \A i \in 1..Len(events) : \A j \in 1..Len(events) :
        (i < j /\ events[i] \in FailedConnects) => events[j] \notin HttpEvents

\* C3 (amended): a failed TCP connect sends the call back to status polling:
\* the answer observed next after a failed connect is a status answer, and
\* every TCP connect directly follows a status body "ready".
C3_FailedConnectRepolls ==
    \A i \in 1..Len(events) :
        /\ (events[i] \in FailedConnects /\ i < Len(events))
              => events[i + 1] \in HttpEvents
        /\ events[i] \in ConnectAnswers => (i > 1 /\ events[i - 1] = "ready")

\* C3 witness: ready, a failed connect, and the status polled again
C3_Witness ==
    \E i \in 1..Len(events) :
        /\ i < Len(events)
        /\ events[i] \in FailedConnects
        /\ events[i + 1] \in HttpEvents

NotReadyBody(e) == e \in StatusBodies /\ e # "ready"

\* C4: the bodies handed to the observer are exactly the observed success
\* bodies that are not "ready", once each and in order; refused polls, the
\* "ready" body and TCP answers hand over nothing.
C4_OneCallbackPerNotReadyBody ==
    callbacks = IF status_callback THEN SelectSeq(events, NotReadyBody) ELSE <<>>

\* C4 witness: refused, refused, starting, ready, connected: one callback
C4_Witness ==
    /\ last.op = WAIT
    /\ last.raised = Returned
    /\ status_callback
    /\ events = <<REFUSED, REFUSED, "starting", "ready", "connected">>
    /\ callbacks = <<"starting">>

\* C5: a wait_for_web_ui_ready called with no resolvable process raises
\* NotRunning at once: no request, no callback, the cached id untouched.
C5_NotRunningLeavesAllAlone ==
    [][((\E cb \in BOOLEAN : WaitStart(cb)) /\ ~is_running(platform, procs))
          => /\ last'.op = WAIT
             /\ last'.raised = NotRunning
             /\ pc' = "idle"
             /\ events' = <<>>
             /\ callbacks' = <<>>
             /\ process_id' = process_id]_vars

\* C5 witness: NotRunning was raised and a stale cached id is still there
C5_Witness ==
    /\ last.op = WAIT
    /\ last.raised = NotRunning
    /\ process_id # NoPid
    /\ events = <<>>

\* C6: the loop ends only by returning after a "ready" or by raising
\* ProcessTerminated at a moment the process is unresolvable: with a
\* resolvable process and no "ready" it goes on whatever it has observed.
C6_OnlyReadyOrDeathEndsWait ==
    [][(pc # "idle" /\ pc' = "idle")
          => \/ /\ last'.raised = Returned
                /\ \E i \in 1..Len(events') : events'[i] = "ready"
             \/ /\ last'.raised = ProcessTerminated
                /\ unresolvable(platform, procs)]_vars

\* C6 witness: still polling after many answers, none of them "ready"
C6_Witness ==
    /\ pc = "poll"
    /\ Len(events) >= 4
    /\ \A i \in 1..Len(events) : events[i] # "ready"
    /\ ~unresolvable(platform, procs)

\* C7: install(force=False) on an existing destination raises
\* AlreadyInstalled without a download and leaves folder and file as they
\* were; and a successful install leaves a file, so that a second
\* install(force=False) is such a call.
C7_AlreadyInstalledTouchesNothing ==
    [][/\ (last'.op = "install" /\ ~last'.force /\ file # NoFile)
            => /\ last'.raised = AlreadyInstalled
               /\ ~last'.downloaded
               /\ file' = file
               /\ folder' = folder
       /\ (last'.op = "install" /\ last'.raised = Returned) => file' # NoFile]_vars

\* C7 witness: AlreadyInstalled was raised over an installed payload
C7_Witness ==
    /\ last.op = "install"
    /\ last.raised = AlreadyInstalled
    /\ file.bytes \in Payloads

\* C8: a forced install over an existing file writes the downloaded payload,
\* and every install that returns leaves the file with mode 0o770.
C8_ForceOverwritesAndMode770 ==
    [][/\ \A d \in Downloads :
            (install(TRUE, d) /\ file # NoFile /\ d.ok /\ d.content.kind = "file")
                => /\ last'.raised = Returned
                   /\ file'.bytes = d.content.payload
       /\ (last'.op = "install" /\ last'.raised = Returned)
            => (file' # NoFile /\ file'.mode = Mode770)]_vars

\* C8 witness: a forced install returned and left a payload with mode 0o770
C8_Witness ==
    /\ last.op = "install"
    /\ last.force
    /\ last.raised = Returned
    /\ file.bytes \in Payloads
    /\ file.mode = Mode770

\* C9: a failed download response makes install raise DownloadError, and an
\* install that raises DownloadError leaves the file as it was.
C9_DownloadErrorKeepsFile ==
    [][/\ \A f \in BOOLEAN : \A d \in Downloads :
            (install(f, d) /\ ~d.ok /\ (f \/ file = NoFile))
                => last'.raised = DownloadError
       /\ (last'.op = "install" /\ last'.raised = DownloadError)
            => (file' = file /\ last'.downloaded)]_vars

\* C9 witness: a forced install over an existing file raised DownloadError
C9_Witness ==
    /\ last.op = "install"
    /\ last.force
    /\ last.raised = DownloadError
    /\ file # NoFile

\* C10: kill() without a cached process id returns having scanned nothing,
\* killed nothing and cached nothing.
C10_KillWithoutIdIsNoOp ==
    [][(kill /\ process_id = NoPid)
          => /\ last'.raised = Returned
             /\ ~last'.scanned
             /\ last'.killed = NoPid
             /\ procs' = procs
             /\ process_id' = NoPid]_vars

\* C10 witness: such a kill() returned while an instance of the binary runs
C10_Witness ==
    /\ last.op = "kill"
    /\ last.raised = Returned
    /\ ~last.scanned
    /\ process_id = NoPid
    /\ \E pid \in Pids : procs[pid] # NoProc /\ procs[pid].status = STATUS_RUNNING

\* C11: kill() with a cached id of a living process kills that process,
\* waits for it and scans again; when it returns the cached id is None and
\* the scan finds no process, and when the scan still finds one it raises
\* AssertionError instead of returning.
C11_KillEndsWithNothingResolvable ==
    [][(kill /\ process_id # NoPid /\ procs[process_id] # NoProc)
          => /\ last'.killed = process_id
             /\ procs'[process_id] = NoProc
             /\ last'.scanned
             /\ last'.raised \in {Returned, AssertionError}
             /\ last'.raised = Returned
                  => (process_id' = NoPid /\ ~is_running(platform, procs'))
             /\ is_running(platform, procs') => last'.raised = AssertionError]_vars

\* C11 witness: a second instance was running, kill() raised AssertionError
C11_Witness ==
    /\ last.op = "kill"
    /\ last.raised = AssertionError
    /\ last.killed # NoPid
    /\ procs[last.killed] = NoProc
    /\ is_running(platform, procs)

StatusProperties == {"is_running", "is_zombie", "is_installed"}

\* C12: launch() caches the pid of the process it spawned; reading
\* is_running, is_zombie or is_installed and calling install() leave the
\* cached id as it is; it changes only in launch(), in kill() and in the
\* refresh at the top of an iteration of wait_for_web_ui_ready.
C12_OnlyLaunchKillRefreshWriteId ==
    [][/\ (last'.op = "launch" /\ last'.raised = Returned)
            => /\ process_id' \in Pids
               /\ procs[process_id'] = NoProc
               /\ procs' = [procs EXCEPT ![process_id'] =
                               [name |-> binary_name, status |-> STATUS_RUNNING]]
       /\ last'.op \in StatusProperties \cup {"install"}
            => process_id' = process_id
       /\ process_id' # process_id
            => \/ last'.op \in {"launch", "kill"}
               \/ last'.op = WAIT /\ pc = "refresh"]_vars

\* C12 witness: a status property was read after a launch, and the cached id
\* is still the launched pid although a scan would give another one
C12_Witness ==
    /\ last.op \in StatusProperties
    /\ process_id # NoPid
    /\ get_process_id(platform, procs) # process_id
    /\ procs[process_id] # NoProc

\* the processes whose name equals the binary name, case ignored
NameMatches(table) ==
    {p \in Pids : table[p] # NoProc /\ lower(table[p].name) = lower(binary_name)}

\* the processes whose name the OS reports
NameReadable(plat, table) ==
    {p \in Pids : table[p] # NoProc /\ ~(plat = "darwin" /\ table[p].status = STATUS_ZOMBIE)}

\* pid is the highest member of S, or no pid when S is empty
HighestOf(pid, S) ==
    IF S = {} THEN pid = NoPid ELSE pid \in S /\ \A q \in S : q <= pid

\* C13 (as stated): the scan returns the highest pid among all processes
\* whose name equals the binary name case-insensitively, none when there is
\* no such process; is_running is true exactly when the scan returns a pid.
C13_ScanIsHighestNameMatch ==
    /\ last.op = "__init__" => HighestOf(process_id, NameMatches(procs))
    /\ last.op = "is_running" => last.raised = Bool(NameMatches(procs) # {})

\* C13 (amended): the same over the processes whose name can be read; a
\* zombie whose name query raises psutil.ZombieProcess is skipped.
C13_ScanIsHighestReadableNameMatch ==
    LET matches == NameMatches(procs) \cap NameReadable(platform, procs)
    IN  /\ last.op \in {"__init__", "is_running", "is_zombie"}
            => HighestOf(process_id, matches)
        /\ last.op = "is_running"
            => last.raised = Bool(matches # {}) /\ last.raised = Bool(process_id # NoPid)

\* C13 witness: two processes match, spelled differently; the scan gave the
\* higher one and is_running is True
C13_Witness ==
    /\ last.op = "is_running"
    /\ last.raised = ReturnedTrue
    /\ process_id # NoPid
    /\ \E q \in NameMatches(procs) :
          q < process_id /\ procs[q].name # procs[process_id].name

\* C14: is_zombie is true exactly when an id is cached and the OS state of
\* the cached process is dead or zombie (false when no id is cached); a
\* cached process in state dead is therefore classified Zombie.
C14_ZombieIffCachedDeadOrZombie ==
    last.op = "is_zombie"
        => last.raised = Bool(/\ process_id # NoPid
                              /\ procs[process_id].status \in {STATUS_DEAD, STATUS_ZOMBIE})

\* ---- the ordering policy of GitHub-style channels

GitHubStyle(r) == r.cls \in {RaidenRelease, RaidenTestnetRelease}

\* the precedence dev < alpha < beta < rc < none
PolicyRank(kind) ==
    CASE kind = "dev" -> 0
      [] kind = "alpha" -> 1
      [] kind = "beta" -> 2
      [] kind = "rc" -> 3
      [] kind = None -> 4

\* (major, minor, revision) as numbers
Numeric(r) ==
    <<int(r.version_data.major), int(r.version_data.minor), int(r.version_data.revision)>>

\* u < v for triples of numbers, the first difference deciding
TripleLess(u, v) ==
    \/ u[1] < v[1]
    \/ u[1] = v[1] /\ u[2] < v[2]
    \/ u[1] = v[1] /\ u[2] = v[2] /\ u[3] < v[3]

\* C15: with equal (major, minor, revision) and distinct modifier kinds, both
\* < and > follow the precedence dev < alpha < beta < rc < none; a stable
\* release is greater than any pre-release of its version.
C15_ModifierPrecedence ==
    (/\ GitHubStyle(left)
     /\ Numeric(left) = Numeric(right)
     /\ version_modifier(left) # version_modifier(right))
        => /\ last.op = "__lt__"
                => last.raised = Bool(PolicyRank(version_modifier(left))
                                        < PolicyRank(version_modifier(right)))
           /\ last.op = "__gt__"
                => last.raised = Bool(PolicyRank(version_modifier(left))
                                        > PolicyRank(version_modifier(right)))

\* C16: a < b is decided by the numeric comparison of major, then of minor,
\* then of revision, whatever the modifiers are (9 is below 10).
C16_NumericComponents ==
    (/\ GitHubStyle(left)
     /\ Numeric(left) # Numeric(right)
     /\ last.op = "__lt__")
        => last.raised = Bool(TripleLess(Numeric(left), Numeric(right)))

\* C17: with equal (major, minor, revision) and the same modifier kind, the
\* modifier numbers decide, compared as numbers (rc2 < rc10); descriptors
\* with the same kind and number are equal.
C17_NumericModifierNumbers ==
    (/\ GitHubStyle(left)
     /\ Numeric(left) = Numeric(right)
     /\ version_modifier(left) = version_modifier(right))
        => /\ (last.op = "__lt__" /\ version_modifier(left) # None)
                => last.raised = Bool(int(version_modifier_number(left))
                                        < int(version_modifier_number(right)))
           /\ (last.op = "__eq__"
               /\ version_modifier_number(left) = version_modifier_number(right))
                => last.raised = ReturnedTrue

\* C18: < and > are one ordering seen from either side: a < b exactly when
\* b > a.
C18_LessIsGreaterMirrored ==
    GitHubStyle(left)
        => /\ last.op = "__lt__" => last.raised = Bool(gt(right, left))
           /\ last.op = "__gt__" => last.raised = Bool(lt(right, left))

\* C19: nightly descriptors are ordered and equal by release timestamp alone,
\* whatever their versions are.
C19_NightlyByTimestamp ==
    left.cls = RaidenNightly
        => /\ last.op = "__lt__"
                => last.raised = Bool(left.release_datetime < right.release_datetime)
           /\ last.op = "__gt__"
                => last.raised = Bool(left.release_datetime > right.release_datetime)
           /\ last.op = "__eq__"
                => last.raised = Bool(left.release_datetime = right.release_datetime)

\* C19 witness: two nightly builds of one version with different timestamps
\* were compared and are not equal
C19_Witness ==
    /\ left.cls = RaidenNightly
    /\ last.op = "__eq__"
    /\ last.raised = ReturnedFalse
    /\ left.version_data = right.version_data
    /\ left.release_datetime # right.release_datetime

\* a is greater than b under the ordering policy of their channel: by
\* timestamp for nightly builds; otherwise by (major, minor, revision) as
\* numbers, then by modifier precedence, then by modifier number
PolicyGreater(a, b) ==
    IF a.cls = RaidenNightly THEN a.release_datetime > b.release_datetime
    ELSE \/ TripleLess(Numeric(b), Numeric(a))
         \/ /\ Numeric(b) = Numeric(a)
            /\ PolicyRank(version_modifier(b)) < PolicyRank(version_modifier(a))
         \/ /\ Numeric(b) = Numeric(a)
            /\ version_modifier(b) = version_modifier(a)
            /\ version_modifier(a) # None
            /\ int(version_modifier_number(b)) < int(version_modifier_number(a))

\* C20: the first element of the listing is a maximum of the listed
\* descriptors under the channel's ordering policy: no listed descriptor is
\* greater than it.
C20_LatestIsMaximum ==
    (/\ last.op = "get_available_releases"
     /\ last.raised = Returned
     /\ call.value # <<>>)
        => \A i \in 1..Len(index[call.cls]) :
              _make_release(index[call.cls][i]) # NoRelease
                => ~PolicyGreater(_make_release(index[call.cls][i]), call.value[1])

\* ---- listing and tag resolution

Listing(cls) == \E ok \in BOOLEAN : get_available_releases(cls, ok)

\* the elements of a sequence
Range(seq) == {seq[i] : i \in 1..Len(seq)}

\* C21: a successful listing of a channel is cached for that channel: every
\* later listing returns it without a request to the index; a failed
\* listing caches nothing, so the next one asks the index again; after
\* the cache is cleared the next listing asks the index again.
C21_ListingCachedPerChannel ==
    [][\A cls \in Classes :
          /\ (Listing(cls) /\ cache[cls] # <<>>)
                => /\ last'.raised = Returned
                   /\ ~last'.downloaded
                   /\ call'.value = cache[cls][1]
                   /\ cache' = cache
          /\ (Listing(cls) /\ cache[cls] = <<>>)
                => /\ last'.downloaded
                   /\ \A c \in Classes \ {cls} : cache'[c] = cache[c]
                   /\ last'.raised # Returned => cache'[cls] = <<>>
                   /\ last'.raised = Returned
                        => /\ cache'[cls] = <<call'.value>>
                           /\ Range(call'.value) = Range(make_releases(cls, index[cls]).releases)
          /\ cache_clear => cache'[cls] = <<>>
          /\ (cache'[cls] # cache[cls] /\ cache[cls] # <<>>) => cache_clear]_vars

\* C21 witness: a channel was listed from the cache although its index has
\* since got a release the cached listing does not hold
C21_Witness ==
    /\ last.op = "get_available_releases"
    /\ last.raised = Returned
    /\ ~last.downloaded
    /\ cache[call.cls] = <<call.value>>
    /\ make_releases(call.cls, index[call.cls]).raised = Returned
    /\ Range(make_releases(call.cls, index[call.cls]).releases) # Range(call.value)

\* the descriptor an index entry stands for: that of the first asset of a
\* GitHub record whose name matches, that of a well-formed matching key of
\* the bucket; NoRelease for any other entry
WellFormed(cls, entry) ==
    IF cls = RaidenNightly
    THEN IF entry[1] \in Releases THEN entry[1] ELSE NoRelease
    ELSE LET matching == SelectSeq(entry, LAMBDA name : name \in Releases)
         IN  IF matching = <<>> THEN NoRelease ELSE matching[1]

\* C22: a listing whose index request succeeds never raises: entries with
\* no matching asset, keys that do not match and malformed keys are skipped,
\* and the result holds the descriptor of every well-formed matching entry.
C22_ListingSkipsBadEntries ==
    [][\A cls \in Classes :
          (get_available_releases(cls, TRUE) /\ cache[cls] = <<>>)
             => /\ last'.raised = Returned
                /\ \A i \in 1..Len(index[cls]) :
                      WellFormed(cls, index[cls][i]) # NoRelease
                        => WellFormed(cls, index[cls][i]) \in Range(call'.value)]_vars

\* the descriptors the nightly index lists now
NightlyListed ==
    {WellFormed(RaidenNightly, index[RaidenNightly][i]) :
        i \in 1..Len(index[RaidenNightly])} \ {NoRelease}

\* C23: resolving a nightly tag lists the bucket index anew on every call;
\* it returns a descriptor whose release string is the tag, or nothing when
\* no listed descriptor has that release string, so a build that is in the
\* index at the time of the call is found by its tag.
C23_NightlyTagRelists ==
    [][\A release_tag \in Tags :
          RaidenNightly_make_by_tag(release_tag, TRUE)
             => /\ last'.downloaded
                /\ last'.raised = Returned
                     => /\ call'.value # <<>>
                             => RaidenNightly_release(call'.value[1]) = release_tag
                        /\ call'.value = <<>>
                             <=> ~\E r \in NightlyListed :
                                     RaidenNightly_release(r) = release_tag]_vars

\* how many of the given truth values are true
Count(truths) == Cardinality({i \in 1..Len(truths) : truths[i]})

\* C24: of a < b, a == b and a > b exactly one holds, for any two
\* GitHub-style descriptors of one channel.
C24_Trichotomy ==
    (GitHubStyle(left) /\ last.op \in {"__lt__", "__eq__", "__gt__"})
        => Count(<<lt(left, right), eq(left, right), gt(left, right)>>) = 1

\* C25: when launch() has spawned a process and wait_for_web_ui_ready has
\* then returned, the cached id is that process, and a kill() that follows
\* removes that process and no other, whatever else runs under the name.
C25_KillAfterWaitKillsTheChild ==
    [][(kill /\ spawned # NoPid /\ last.op = WAIT /\ last.raised = Returned)
          => /\ process_id = spawned
             /\ last'.killed = spawned
             /\ \A p \in Pids \ {spawned} : procs'[p] = procs[p]]_vars

\* the running processes with the binary's name
RunningMatches(table) ==
    {p \in NameMatches(table) : table[p].status = STATUS_RUNNING}

\* C26: a new descriptor caches the highest pid of the running processes
\* with its binary name, none if there is none; kill() on it, launch()
\* never called, terminates that process, and does nothing only if no such
\* process ran when the descriptor was constructed.
C26_ConstructedOnRunningInstance ==
    [][/\ __init__ => HighestOf(process_id', RunningMatches(procs))
       /\ (kill /\ last.op = "__init__" /\ RunningMatches(procs) = {})
            => /\ procs' = procs
               /\ last'.raised = Returned
               /\ last'.killed = NoPid
       /\ (kill /\ last.op = "__init__" /\ RunningMatches(procs) # {})
            => /\ HighestOf(last'.killed, RunningMatches(procs))
               /\ procs'[last'.killed] = NoProc]_vars

\* the file destination_path.open("wb") creates, nothing written to it
EmptyFile == [bytes |-> EmptyBytes, mode |-> ModeCreated]

\* C27 (as stated): an install that raises, the destination not existing
\* before, leaves the destination not existing.
C27_FailedInstallNotInstalled ==
    [][\A f \in BOOLEAN : \A d \in Downloads :
          (install(f, d) /\ file = NoFile /\ last'.raised # Returned)
             => file' = NoFile]_vars

\* C27 (amended): such an install leaves the destination not existing when
\* the download fails or the content is no archive; when the archive has no
\* members it leaves an empty file there, and an install without force that
\* follows is rejected as already installed.
C27_FailedInstallLeavesNothingOrEmptyFile ==
    [][\A f \in BOOLEAN : \A d \in Downloads :
          /\ (install(f, d) /\ file = NoFile /\ last'.raised # Returned)
                => /\ last'.raised \in {DownloadError, ExtractionError}
                   /\ (last'.raised = DownloadError \/ d.content.kind = "corrupt")
                        => file' = NoFile
                   /\ (last'.raised = ExtractionError /\ d.content.kind = "nomember")
                        => file' = EmptyFile
          /\ (install(FALSE, d) /\ last.op = "install" /\ last.raised = ExtractionError
              /\ file # NoFile)
                => (last'.raised = AlreadyInstalled /\ file' = file)]_vars

\* C27 witness: an install without force, hence on a destination that did
\* not exist, failed in extraction and left an empty file
C27_Witness ==
    /\ last.op = "install"
    /\ ~last.force
    /\ last.raised = ExtractionError
    /\ file = EmptyFile

====
